---- MODULE Spec2Model ----
(***************************************************************************)
(* Model of src/automata_simulator.c: the FSM aggregate (states,           *)
(* transitions, alphabet, initial state, cursor), its registration         *)
(* functions addState / addTransition / addToAlphabet, the lookups         *)
(* charInAlphabet / findTransition, resetFSM, and processString with the   *)
(* ProcessResult it returns.                                               *)
(*                                                                         *)
(* A C array is modelled by the sequence of its written slots; C index i   *)
(* is position i + 1 of the sequence.  A slot of fsm.states that addState  *)
(* has not written yet holds whatever the memory of the FSM object held    *)
(* before initializeFSM (which does not clear the arrays): the variable    *)
(* uninit is that content, chosen arbitrarily in Init and never changed.   *)
(* A char is a one-character string, a C string a sequence of chars.       *)
(* sprintf is modelled by the sequence of the pieces it writes: the        *)
(* literal parts of the format and the values substituted for %s and %c.   *)
(*                                                                         *)
(* Four specifications share the actions: Spec starts from initializeFSM,  *)
(* SpecFull one call short of MAX_STATES, MAX_TRANSITIONS or MAX_ALPHABET, *)
(* SpecSample and SpecLong from createSampleFSM as main does, the latter   *)
(* with inputs about as long as the trace array.  A trace write outside    *)
(* result.trace is undefined behaviour: the call then has one of several   *)
(* outcomes (Outcomes), among them the end of the process.                 *)
(***************************************************************************)
EXTENDS Integers, Sequences, FiniteSets, TLC

\* ---- program constants (#define) ----
MAX_STATES == 100
MAX_TRANSITIONS == 500
MAX_ALPHABET == 26
MAX_TRACE == 100

\* ---- bounds of the exploration ----
\* addState is explored while fewer than MaxStates states exist, and again
\* from MAX_STATES - 1 on (the capacity boundary).
MaxStates == 2
\* the same for addTransition and MAX_TRANSITIONS; and from an alphabet of
\* MAX_ALPHABET - 1 symbols on, MaxTransitions calls more are explored.
MaxTransitions == 2
\* longest input handed to processString.
MaxLen == 2
\* longest string over {a, b, c} typed at the menu of main.
MaxSampleLen == 4
\* the long strings typed at the menu have MAX_TRACE - 2 - MaxOver to
\* MAX_TRACE - 2 + MaxOver characters before the one that may stop the scan
\* (MAX_TRACE - 2 characters is the longest input whose records fit the trace).
MaxOver == 2

\* ---- inputs of the calls ----
\* The caller names the state it adds after the index the state gets, as
\* createSampleFSM does ("q0", "q1", "q2").
StateName(k) == "q" \o ToString(k)
Flags == {0, 1}
Symbols == {"a", "b"}
\* state indices handed to addTransition: the function does not compare them
\* with stateCount, so an index may name a slot no addState has written.
StateArgs == {0, 1}
\* what never-written memory of fsm.states may hold.
Garbage == {[name |-> "?", isAccepting |-> 0], [name |-> "?", isAccepting |-> 7]}

RECURSIVE SeqsUpTo(_, _)
SeqsUpTo(S, n) ==
  IF n = 0 THEN {<<>>}
  ELSE LET shorter == SeqsUpTo(S, n - 1)
       IN  shorter \cup {Append(s, c) : s \in {t \in shorter : Len(t) = n - 1}, c \in S}

Inputs == SeqsUpTo(Symbols, MaxLen)

VARIABLES
  fsm,     \* the FSM object
  uninit,  \* content of the slots of fsm.states that were never written
  call,    \* the most recent call and its arguments
  ret,     \* what that call returned
  before,  \* history: the FSM object as that call found it
  passed   \* history: the symbols handed to addTransition so far

vars == <<fsm, uninit, call, ret, before, passed>>

Void == [kind |-> "void"]

\* ---- the functions of the program ----

\* fsm->states[i]
StateAt(f, u, i) ==
  IF i + 1 \in DOMAIN f.states THEN f.states[i + 1] ELSE u

initializeFSM ==
  [states |-> <<>>, stateCount |-> 0,
   transitions |-> <<>>, transitionCount |-> 0,
   initialState |-> 0, currentState |-> 0,
   alphabet |-> <<>>, alphabetSize |-> 0]

\* writes v into slot i of a C array whose written slots are arr
WriteAt(arr, i, v) ==
  IF i + 1 \in DOMAIN arr THEN [arr EXCEPT ![i + 1] = v] ELSE Append(arr, v)

\* the capacity test written with > instead of >=
addStateOffByOne(f, name, isAccepting) ==
  IF f.stateCount > MAX_STATES
  THEN [fsm |-> f, ret |-> -1]
  ELSE [fsm |-> [f EXCEPT
                   !.states = WriteAt(f.states, f.stateCount,
                                      [name |-> name, isAccepting |-> isAccepting]),
                   !.stateCount = f.stateCount + 1],
        ret |-> f.stateCount]

\* the index returned after the increment, return ++fsm->stateCount
addStatePreIncrement(f, name, isAccepting) ==
  IF f.stateCount >= MAX_STATES
  THEN [fsm |-> f, ret |-> -1]
  ELSE [fsm |-> [f EXCEPT
                   !.states = WriteAt(f.states, f.stateCount,
                                      [name |-> name, isAccepting |-> isAccepting]),
                   !.stateCount = f.stateCount + 1],
        ret |-> f.stateCount + 1]

\* strncpy copies at most MAX_NAME_LEN - 1 = 49 chars; every name handed in
\* is shorter, so the stored name is the argument.
addState(f, name, isAccepting) ==
  IF f.stateCount >= MAX_STATES
  THEN [fsm |-> f, ret |-> -1]
  ELSE [fsm |-> [f EXCEPT
                   !.states = WriteAt(f.states, f.stateCount,
                                      [name |-> name, isAccepting |-> isAccepting]),
                   !.stateCount = f.stateCount + 1],
        ret |-> f.stateCount]

RECURSIVE charInAlphabetFrom(_, _, _)
charInAlphabetFrom(f, c, i) ==
  IF i < f.alphabetSize
  THEN IF f.alphabet[i + 1] = c THEN 1 ELSE charInAlphabetFrom(f, c, i + 1)
  ELSE 0

\* the comparison written as an assignment, if (fsm->alphabet[i] = c): true
\* on the first slot for every char c other than NUL
charInAlphabetAssign(f, c) == IF 0 < f.alphabetSize THEN 1 ELSE 0

charInAlphabet(f, c) == charInAlphabetFrom(f, c, 0)

\* the new symbol stored without alphabetSize++
addToAlphabetNoCount(f, c) ==
  IF charInAlphabet(f, c) = 0 /\ f.alphabetSize < MAX_ALPHABET
  THEN [f EXCEPT !.alphabet = WriteAt(f.alphabet, f.alphabetSize, c)]
  ELSE f

\* the new symbol stored without the test alphabetSize < MAX_ALPHABET
addToAlphabetNoRoomTest(f, c) ==
  IF charInAlphabet(f, c) = 0
  THEN [f EXCEPT !.alphabet = WriteAt(f.alphabet, f.alphabetSize, c),
                 !.alphabetSize = f.alphabetSize + 1]
  ELSE f

\* the symbol stored without the test !charInAlphabet(fsm, c)
addToAlphabetNoMemberTest(f, c) ==
  IF f.alphabetSize < MAX_ALPHABET
  THEN [f EXCEPT !.alphabet = WriteAt(f.alphabet, f.alphabetSize, c),
                 !.alphabetSize = f.alphabetSize + 1]
  ELSE f

addToAlphabet(f, c) ==
  IF charInAlphabet(f, c) = 0 /\ f.alphabetSize < MAX_ALPHABET
  THEN [f EXCEPT !.alphabet = WriteAt(f.alphabet, f.alphabetSize, c),
                 !.alphabetSize = f.alphabetSize + 1]
  ELSE f

\* the symbol registered before the capacity test
addTransitionRegistersFirst(f, fromState, toState, symbol) ==
  IF f.transitionCount >= MAX_TRANSITIONS
  THEN addToAlphabet(f, symbol)
  ELSE addToAlphabet(
         [f EXCEPT
            !.transitions = WriteAt(f.transitions, f.transitionCount,
                                    [fromState |-> fromState, toState |-> toState,
                                     symbol |-> symbol]),
            !.transitionCount = f.transitionCount + 1],
         symbol)

addTransition(f, fromState, toState, symbol) ==
  IF f.transitionCount >= MAX_TRANSITIONS
  THEN f
  ELSE addToAlphabet(
         [f EXCEPT
            !.transitions = WriteAt(f.transitions, f.transitionCount,
                                    [fromState |-> fromState, toState |-> toState,
                                     symbol |-> symbol]),
            !.transitionCount = f.transitionCount + 1],
         symbol)

\* The for loop of findTransition over the indices lo .. hi - 1: the first i
\* in scan order whose transition matches, -1 when the loop runs out.  The
\* range is walked by halves, lower half first, which visits the indices in
\* the loop's order and keeps the evaluation depth logarithmic in
\* transitionCount.
RECURSIVE findTransitionIn(_, _, _, _, _)
findTransitionIn(f, currentState, symbol, lo, hi) ==
  IF lo >= hi THEN -1
  ELSE IF hi = lo + 1
  THEN IF /\ f.transitions[lo + 1].fromState = currentState
          /\ f.transitions[lo + 1].symbol = symbol
       THEN lo
       ELSE -1
  ELSE LET mid == (lo + hi) \div 2
           first == findTransitionIn(f, currentState, symbol, lo, mid)
       IN  IF first >= 0 THEN first
           ELSE findTransitionIn(f, currentState, symbol, mid, hi)

\* the loop run downwards, for (i = transitionCount - 1; i >= 0; i--): the
\* last match instead of the first
RECURSIVE findTransitionDown(_, _, _, _)
findTransitionDown(f, currentState, symbol, i) ==
  IF i >= 0
  THEN IF /\ f.transitions[i + 1].fromState = currentState
          /\ f.transitions[i + 1].symbol = symbol
       THEN i
       ELSE findTransitionDown(f, currentState, symbol, i - 1)
  ELSE -1

findTransitionLast(f, currentState, symbol) ==
  findTransitionDown(f, currentState, symbol, f.transitionCount - 1)

\* return 0 instead of return -1 after the loop
findTransitionNoneIsZero(f, currentState, symbol) ==
  LET found == findTransitionIn(f, currentState, symbol, 0, f.transitionCount)
  IN  IF found >= 0 THEN found ELSE 0

findTransition(f, currentState, symbol) ==
  findTransitionIn(f, currentState, symbol, 0, f.transitionCount)

\* the assignment written the other way round, initialState = currentState
resetFSMSwapped(f) == [f EXCEPT !.initialState = f.currentState]

resetFSM(f) == [f EXCEPT !.currentState = f.initialState]

\* ---- the trace records (the sprintf calls of processString) ----
MsgStart(name) == <<"Starting at state: ", name>>
MsgNotInAlphabet(c) == <<"Error: '", c, "' not in alphabet">>
\* the two state names of a Read record in the wrong order
MsgReadSwapped(c, old, new) == <<"Read '", c, "': ", new, " -> ", old>>
MsgRead(c, old, new) == <<"Read '", c, "': ", old, " -> ", new>>
MsgNoTransition(c, name) == <<"No transition for '", c, "' from ", name>>
MsgAccepted == <<"String ACCEPTED">>
MsgRejected == <<"String REJECTED">>

\* a trace write that forgets result.traceCount++ after a "Read" record
RecordNoCount(result, msg) ==
  IF Len(msg) = 6
  THEN [result EXCEPT !.trace = WriteAt(result.trace, result.traceCount, msg)]
  ELSE [result EXCEPT !.trace = WriteAt(result.trace, result.traceCount, msg),
                      !.traceCount = result.traceCount + 1]

\* sprintf(result.trace[result.traceCount].message, ...); result.traceCount++;
\* The program does not compare traceCount with MAX_TRACE.  A write at an
\* index below MAX_TRACE fills a slot of result.trace.  A write at an index
\* from MAX_TRACE on leaves the array: it is noted in outside (index and
\* record), trace keeps the records that are inside the array, and traceCount
\* goes on counting as the statement result.traceCount++ says; what such a
\* call can return is UndefinedOutcomes below.
Record(result, msg) ==
  IF result.traceCount < MAX_TRACE
  THEN [result EXCEPT !.trace = WriteAt(result.trace, result.traceCount, msg),
                      !.traceCount = result.traceCount + 1]
  ELSE [result EXCEPT !.outside = Append(result.outside,
                                         [index |-> result.traceCount, msg |-> msg]),
                      !.traceCount = result.traceCount + 1]

\* a verdict taken from the initial state instead of the state the cursor is on
VerdictOfInitial(f, u, result) ==
  LET accepted == StateAt(f, u, f.initialState).isAccepting
  IN  Record([result EXCEPT !.accepted = accepted],
             IF accepted # 0 THEN MsgAccepted ELSE MsgRejected)

\* a verdict that writes the final record but leaves result.accepted at 0
VerdictNotStored(f, u, result) ==
  LET accepted == StateAt(f, u, f.currentState).isAccepting
  IN  Record(result, IF accepted # 0 THEN MsgAccepted ELSE MsgRejected)

\* the lines after the for loop of processString
Verdict(f, u, result) ==
  LET accepted == StateAt(f, u, f.currentState).isAccepting
  IN  Record([result EXCEPT !.accepted = accepted],
             IF accepted # 0 THEN MsgAccepted ELSE MsgRejected)

\* One pass of the body of the for loop of processString, at index st.i; st
\* holds the FSM, the ProcessResult, i, and whether the function has returned
\* from inside the loop.
LoopBody(st, u, input) ==
  LET f == st.fsm
      symbol == input[st.i + 1]
  IN  IF charInAlphabet(f, symbol) = 0
      THEN [st EXCEPT !.result = Record(st.result, MsgNotInAlphabet(symbol)),
                      !.returned = TRUE]
      ELSE LET transIndex == findTransition(f, f.currentState, symbol)
           IN  IF transIndex >= 0
               THEN LET oldState == f.currentState
                        g == [f EXCEPT !.currentState =
                                         f.transitions[transIndex + 1].toState]
                    IN  [st EXCEPT
                           !.fsm = g,
                           !.result = Record(st.result,
                                             MsgRead(symbol,
                                                     StateAt(g, u, oldState).name,
                                                     StateAt(g, u, g.currentState).name)),
                           !.i = st.i + 1]
               ELSE [st EXCEPT
                       !.result = Record(st.result,
                                         MsgNoTransition(symbol,
                                                         StateAt(f, u, f.currentState).name)),
                       !.returned = TRUE]

\* The passes of the loop for the indices lo .. hi - 1, in order, stopping at
\* a return; the range is walked by halves, lower half first, which keeps the
\* evaluation depth logarithmic in the length of the input.
RECURSIVE LoopOver(_, _, _, _, _)
LoopOver(st, u, input, lo, hi) ==
  IF st.returned \/ lo >= hi THEN st
  ELSE IF hi = lo + 1 THEN LoopBody(st, u, input)
  ELSE LET mid == (lo + hi) \div 2
           first == LoopOver(st, u, input, lo, mid)
       IN  LoopOver(first, u, input, mid, hi)

\* the for loop of processString from index i on, then the verdict; yields
\* the FSM as left, the ProcessResult returned and the value of i at return.
ScanFrom(f, u, input, i, result) ==
  LET st == LoopOver([fsm |-> f, result |-> result, i |-> i, returned |-> FALSE],
                     u, input, i, Len(input))
  IN  IF st.returned
      THEN [fsm |-> st.fsm, result |-> st.result, i |-> st.i]
      ELSE [fsm |-> st.fsm, result |-> Verdict(st.fsm, u, st.result), i |-> st.i]

\* processString without the resetFSM call on entry
processStringNoReset(f, u, input) ==
  LET start == Record([accepted |-> 0, trace |-> <<>>, traceCount |-> 0, outside |-> <<>>],
                      MsgStart(StateAt(f, u, f.currentState).name))
  IN  ScanFrom(f, u, input, 0, start)

\* processString that makes the state it stopped on the new initial state
processStringMovesInitial(f, u, input) ==
  LET g == resetFSM(f)
      start == Record([accepted |-> 0, trace |-> <<>>, traceCount |-> 0, outside |-> <<>>],
                      MsgStart(StateAt(g, u, g.currentState).name))
      out == ScanFrom(g, u, input, 0, start)
  IN  [out EXCEPT !.fsm.initialState = out.fsm.currentState]

\* processString that rewinds the cursor again before it returns
processStringRewinds(f, u, input) ==
  LET g == resetFSM(f)
      start == Record([accepted |-> 0, trace |-> <<>>, traceCount |-> 0, outside |-> <<>>],
                      MsgStart(StateAt(g, u, g.currentState).name))
      out == ScanFrom(g, u, input, 0, start)
  IN  [out EXCEPT !.fsm = resetFSM(out.fsm)]

processString(f, u, input) ==
  LET g == resetFSM(f)
      start == Record([accepted |-> 0, trace |-> <<>>, traceCount |-> 0, outside |-> <<>>],
                      MsgStart(StateAt(g, u, g.currentState).name))
  IN  ScanFrom(g, u, input, 0, start)

createSampleFSM ==
  LET s0 == addState(initializeFSM, "q0", 0)
      s1 == addState(s0.fsm, "q1", 0)
      s2 == addState(s1.fsm, "q2", 1)
      q0 == s0.ret
      q1 == s1.ret
      q2 == s2.ret
      t1 == addTransition(s2.fsm, q0, q1, "a")
      t2 == addTransition(t1, q1, q2, "b")
      t3 == addTransition(t2, q2, q0, "c")
  IN  [t3 EXCEPT !.initialState = q0, !.currentState = q0]

\* ---- a call whose trace writes left result.trace ----

\* a ProcessResult of the program as the record ret holds
AsRet(result) ==
  [kind |-> "ProcessResult", accepted |-> result.accepted,
   trace |-> result.trace, traceCount |-> result.traceCount]

\* the first four bytes sprintf writes for a record (the verdict records
\* start with a three-byte check mark or cross and a space)
FirstBytes(msg) ==
  CASE msg = MsgAccepted -> <<226, 156, 147, 32>>
    [] msg = MsgRejected -> <<226, 156, 151, 32>>
    [] msg[1] = "Read '" -> <<82, 101, 97, 100>>
    [] msg[1] = "No transition for '" -> <<78, 111, 32, 116>>
    [] msg[1] = "Error: '" -> <<69, 114, 114, 111>>
    [] OTHER -> <<83, 116, 97, 114>>

\* four bytes read as an int (least significant byte first)
IntOfBytes(b) == b[1] + 256 * b[2] + 65536 * b[3] + 16777216 * b[4]

\* What processString can return.  With every write inside result.trace: the
\* result computed.  Otherwise the behaviour is undefined, and a build
\* produces one of:
\*  - the result computed, traceCount having been kept apart from the bytes
\*    written (in a register);
\*  - trace[MAX_TRACE].message being the address of the member traceCount,
\*    which the struct declares right behind the array, the record written at
\*    index MAX_TRACE replaces traceCount by its first four bytes, which
\*    result.traceCount++ then increments; if that was the last record the
\*    call returns this count, if not the next write is far outside the
\*    stack and the program is killed;
\*  - the program is killed (the bytes written behind result hit the return
\*    address or a guard).
Outcomes(out) ==
  IF out.result.outside = <<>>
  THEN {[fsm |-> out.fsm, ret |-> AsRet(out.result)]}
  ELSE {[fsm |-> out.fsm, ret |-> AsRet(out.result)],
        [fsm |-> out.fsm, ret |-> [kind |-> "killed"]]}
       \cup (IF Len(out.result.outside) = 1
             THEN {[fsm |-> out.fsm,
                    ret |-> [AsRet(out.result) EXCEPT
                               !.traceCount =
                                 IntOfBytes(FirstBytes(out.result.outside[1].msg)) + 1]]}
             ELSE {})

\* ---- the state machine ----

\* the process has not been killed
Running == ret.kind # "killed"


Init ==
  /\ fsm = initializeFSM
  /\ uninit \in Garbage
  /\ call = [op |-> "initializeFSM"]
  /\ ret = Void
  /\ before = fsm
  /\ passed = {}

AddState ==
  \E isAccepting \in Flags :
    LET name == StateName(fsm.stateCount)
        out == addState(fsm, name, isAccepting)
    IN  /\ Running
        /\ fsm.stateCount < MaxStates \/ fsm.stateCount >= MAX_STATES - 1
        /\ fsm' = out.fsm
        /\ ret' = [kind |-> "int", value |-> out.ret]
        /\ call' = [op |-> "addState", name |-> name, isAccepting |-> isAccepting]
        /\ before' = fsm
        /\ UNCHANGED <<uninit, passed>>

AddTransition ==
  \E fromState \in StateArgs, toState \in StateArgs, symbol \in Symbols :
    /\ Running
    /\ \/ fsm.transitionCount < MaxTransitions
       \/ fsm.transitionCount >= MAX_TRANSITIONS - 1
       \/ /\ fsm.alphabetSize >= MAX_ALPHABET - 1
          /\ fsm.transitionCount < MAX_ALPHABET - 1 + MaxTransitions
    /\ fsm' = addTransition(fsm, fromState, toState, symbol)
    /\ ret' = Void
    /\ call' = [op |-> "addTransition", fromState |-> fromState, toState |-> toState,
                symbol |-> symbol]
    /\ before' = fsm
    /\ passed' = passed \cup {symbol}
    /\ UNCHANGED uninit

ResetFSM ==
  /\ Running
  /\ fsm' = resetFSM(fsm)
  /\ ret' = Void
  /\ call' = [op |-> "resetFSM"]
  /\ before' = fsm
  /\ UNCHANGED <<uninit, passed>>

\* result = processString(&fsm, input)
ProcessStringOn(input) ==
  LET out == processString(fsm, uninit, input)
  IN  /\ Running
      /\ \E outcome \in Outcomes(out) :
           /\ fsm' = outcome.fsm
           /\ ret' = outcome.ret
      /\ call' = [op |-> "processString", input |-> input, i |-> out.i,
                  outside |-> out.result.outside]
      /\ before' = fsm
      /\ UNCHANGED <<uninit, passed>>

ProcessString == \E input \in Inputs : ProcessStringOn(input)

Next == AddState \/ AddTransition \/ ResetFSM \/ ProcessString

Spec == Init /\ [][Next]_vars

\* ---- runs that start one call short of a capacity ----

\* The FSM after initializeFSM and n calls addState(fsm, "q<k>", 0).
AfterAddStates(n) ==
  [initializeFSM EXCEPT
     !.states = [k \in 1 .. n |-> [name |-> StateName(k - 1), isAccepting |-> 0]],
     !.stateCount = n]

\* The FSM after initializeFSM, addState(fsm, "q0", 0), addState(fsm, "q1", 1)
\* and n >= 1 calls addTransition(fsm, 0, 1, 'a').
AfterAddTransitions(n) ==
  [initializeFSM EXCEPT
     !.states = <<[name |-> "q0", isAccepting |-> 0], [name |-> "q1", isAccepting |-> 1]>>,
     !.stateCount = 2,
     !.transitions = [k \in 1 .. n |-> [fromState |-> 0, toState |-> 1, symbol |-> "a"]],
     !.transitionCount = n,
     !.alphabet = <<"a">>,
     !.alphabetSize = 1]

\* symbols other than those of Symbols
Letters ==
  <<"c", "d", "e", "f", "g", "h", "i", "j", "k", "l", "m", "n", "o", "p", "q", "r", "s",
    "t", "u", "v", "w", "x", "y", "z", "A">>

\* The FSM after initializeFSM, addState(fsm, "q0", 0), addState(fsm, "q1", 1)
\* and the n <= 25 calls addTransition(fsm, 0, 1, Letters[k]).
AfterAddSymbols(n) ==
  [initializeFSM EXCEPT
     !.states = <<[name |-> "q0", isAccepting |-> 0], [name |-> "q1", isAccepting |-> 1]>>,
     !.stateCount = 2,
     !.transitions = [k \in 1 .. n |-> [fromState |-> 0, toState |-> 1, symbol |-> Letters[k]]],
     !.transitionCount = n,
     !.alphabet = [k \in 1 .. n |-> Letters[k]],
     !.alphabetSize = n]

NearlyFull ==
  {AfterAddStates(MAX_STATES - 1),
   AfterAddTransitions(MAX_TRANSITIONS - 1),
   AfterAddSymbols(MAX_ALPHABET - 1)}

InitFull ==
  /\ fsm \in NearlyFull
  /\ uninit \in Garbage
  /\ call = [op |-> "initializeFSM"]
  /\ ret = Void
  /\ before = fsm
  /\ passed = {fsm.transitions[k].symbol : k \in DOMAIN fsm.transitions}

SpecFull == InitFull /\ [][Next]_vars

\* ---- the program main runs: the sample automaton, tested and reset ----

\* the strings of the automatic testing loop of main
testStrings ==
  {<<"a", "b", "c">>, <<"a", "b">>, <<"a", "b", "c", "a", "b", "c">>, <<"x", "y", "z">>}

\* what the user may type at "Enter string to test"
SampleInputs == SeqsUpTo({"a", "b", "c"}, MaxSampleLen) \cup testStrings

InitSample ==
  /\ fsm = createSampleFSM
  /\ uninit \in Garbage
  /\ call = [op |-> "createSampleFSM"]
  /\ ret = Void
  /\ before = fsm
  /\ passed = {"a", "b", "c"}

\* the automatic tests and menu option 1
TestString == \E input \in SampleInputs : ProcessStringOn(input)

\* menu option 4 is ResetFSM
NextSample == TestString \/ ResetFSM

SpecSample == InitSample /\ [][NextSample]_vars

\* ---- the same program, given strings about as long as the trace ----

\* the first n characters of abcabcabc..., which the sample automaton
\* consumes whole
Cycle(n) == [k \in 1 .. n |-> <<"a", "b", "c">>[((k - 1) % 3) + 1]]

LongLengths == (MAX_TRACE - 2 - MaxOver) .. (MAX_TRACE - 2 + MaxOver)

\* fgets accepts up to MAX_INPUT_LEN - 1 = 999 characters: strings the
\* automaton consumes whole, and the same followed by a character that is not
\* in the alphabet, or by one that has no transition from the state reached
LongInputs ==
  {Cycle(n) : n \in LongLengths}
    \cup {Append(Cycle(n), "x") : n \in LongLengths}
    \cup {Append(Cycle(n), <<"a", "b", "c">>[((n + 1) % 3) + 1]) : n \in LongLengths}
    \cup testStrings

\* menu option 1 with a long string
TestLongString == \E input \in LongInputs : ProcessStringOn(input)

NextLong == TestLongString \/ ResetFSM

SpecLong == InitSample /\ [][NextLong]_vars

\* ---- reference semantics used by the properties ----
\* These are written from the definition of a deterministic automaton run,
\* with sets and quantifiers, not from the loops of the program.

Known(f, c) == \E k \in 1 .. f.alphabetSize : f.alphabet[k] = c

Matches(f, q, c) ==
  {k \in 1 .. f.transitionCount :
     f.transitions[k].fromState = q /\ f.transitions[k].symbol = c}

Least(S) == CHOOSE k \in S : \A j \in S : k <= j

\* the state reached from the initial state by the first k characters of
\* input, each taken through the first registered matching transition (a
\* character without one leaves the state where it is)
RECURSIVE Reached(_, _, _)
Reached(f, input, k) ==
  IF k = 0 THEN f.initialState
  ELSE LET q == Reached(f, input, k - 1)
           m == Matches(f, q, input[k])
       IN  IF m = {} THEN q ELSE f.transitions[Least(m)].toState

\* character k (1-based) can be consumed after the k - 1 before it
CanRead(f, input, k) ==
  /\ Known(f, input[k])
  /\ Matches(f, Reached(f, input, k - 1), input[k]) # {}

\* the 0-based indices at which the scan of input must halt early: the first
\* character that cannot be consumed (empty when the whole input is consumed)
HaltAt(f, input) ==
  {i \in 0 .. Len(input) - 1 :
     /\ ~CanRead(f, input, i + 1)
     /\ \A j \in 1 .. i : CanRead(f, input, j)}

Completes(f, input) == HaltAt(f, input) = {}

IsStart(msg) == Len(msg) = 2 /\ msg[1] = "Starting at state: "
IsRead(msg) == Len(msg) = 6 /\ msg[1] = "Read '"
IsNotInAlphabet(msg) == Len(msg) = 3 /\ msg[1] = "Error: '" /\ msg[3] = "' not in alphabet"
IsNoTransition(msg) == Len(msg) = 4 /\ msg[1] = "No transition for '"
IsVerdict(msg) == msg \in {MsgAccepted, MsgRejected}

InAlphabet(f, c) == charInAlphabet(f, c) = 1

\* the most recent call was processString (before is the FSM it found, fsm
\* the FSM it left, ret the ProcessResult it returned)
Processed == call.op = "processString"

\* ---- C1 ----
\* C1: the ProcessResult a processString call returns is the one the call
\* returns on the same automaton and input from every other value of
\* currentState, and the one a second call with that input returns from the
\* cursor the first call left.
C1_SameResultFromAnyCursor ==
  Processed =>
    /\ \A c \in StateArgs \cup {before.initialState} :
         AsRet(processString([before EXCEPT !.currentState = c], uninit, call.input).result)
           = ret
    /\ AsRet(processString(fsm, uninit, call.input).result) = ret

\* a call that found the cursor away from the initial state consumed two
\* characters and left the cursor on yet another state than it found
C1_Witness ==
  /\ Processed
  /\ before.currentState # before.initialState
  /\ fsm.currentState # before.currentState
  /\ call.i = 2
  /\ ret.traceCount = 4

\* ---- C2 ----
\* C2: after processString on an input of length n, the trace starts with the
\* start record; if all n characters are consumed it has n + 2 records (n Read
\* records, then the verdict); if the scan halts at index i it has i + 2
\* records (i Read records, then one failure record about character i, last),
\* and nothing about a later character.
C2_TraceLength ==
  Processed =>
    LET n == Len(call.input)
        halt == HaltAt(before, call.input)
        reads == IF halt = {} THEN n ELSE Least(halt)
    IN  /\ ret.traceCount = reads + 2
        /\ Len(ret.trace) = ret.traceCount
        /\ IsStart(ret.trace[1])
        /\ \A k \in 1 .. reads :
             IsRead(ret.trace[k + 1]) /\ ret.trace[k + 1][2] = call.input[k]
        /\ halt = {} => IsVerdict(ret.trace[n + 2])
        /\ halt # {} =>
             /\ IsNotInAlphabet(ret.trace[reads + 2]) \/ IsNoTransition(ret.trace[reads + 2])
             /\ ret.trace[reads + 2][2] = call.input[reads + 1]
        /\ call.i = reads

\* a scan that halted at index 1 of a two-character input (3 records)
C2_Witness ==
  /\ Processed
  /\ Len(call.input) = 2
  /\ HaltAt(before, call.input) = {1}
  /\ ret.traceCount = 3

\* ---- C3 ----
\* C3: when processString consumes the whole input, accepted is the
\* isAccepting flag of the state reached by folding the input from the initial
\* state through the first-match transitions, and the last trace record is the
\* ACCEPTED record iff accepted is true, the REJECTED record otherwise.
C3_VerdictOfReachedState ==
  (Processed /\ Completes(before, call.input)) =>
    LET last == ret.trace[ret.traceCount]
    IN  /\ ret.accepted
             = StateAt(before, uninit, Reached(before, call.input, Len(call.input))).isAccepting
        /\ (last = MsgAccepted) <=> (ret.accepted # 0)
        /\ (last = MsgRejected) <=> (ret.accepted = 0)

\* a completed scan of two characters that ends accepting, on a state other
\* than the initial one, which is not accepting
C3_Witness ==
  /\ Processed
  /\ Completes(before, call.input)
  /\ Len(call.input) = 2
  /\ ret.accepted # 0
  /\ fsm.currentState # fsm.initialState
  /\ StateAt(fsm, uninit, fsm.initialState).isAccepting = 0

\* ---- C4 ----
\* C4: processString on the empty input returns a trace of exactly 2 records,
\* the start record naming the initial state and then the verdict record, and
\* accepted equal to the accepting flag of the initial state.
C4_EmptyInput ==
  (Processed /\ call.input = <<>>) =>
    /\ ret.traceCount = 2
    /\ Len(ret.trace) = 2
    /\ ret.trace[1] = MsgStart(StateAt(before, uninit, before.initialState).name)
    /\ ret.trace[2] = IF ret.accepted # 0 THEN MsgAccepted ELSE MsgRejected
    /\ ret.accepted = StateAt(before, uninit, before.initialState).isAccepting

\* the empty input was processed, from a cursor away from the initial state,
\* on an automaton whose initial state was registered as accepting
C4_Witness ==
  /\ Processed
  /\ call.input = <<>>
  /\ before.stateCount > 0
  /\ before.currentState # before.initialState
  /\ ret.accepted = 1

\* ---- C5 ----
\* C5 as stated: no call shrinks the alphabet, and after every call
\* charInAlphabet(s) is true exactly for the symbols s handed to addTransition
\* so far.
C5_AlphabetIsSymbolsPassed ==
  /\ \A s \in Symbols : InAlphabet(before, s) => InAlphabet(fsm, s)
  /\ \A s \in Symbols : InAlphabet(fsm, s) <=> s \in passed

\* C5 amended: no call shrinks the alphabet; charInAlphabet(s) is true after
\* every addTransition call with symbol s made while transitionCount <
\* MAX_TRANSITIONS and alphabetSize < MAX_ALPHABET (and stays true, the
\* alphabet never shrinking); and it is false for every symbol never handed to
\* addTransition.
C5_AlphabetGrowsBelowCapacity ==
  /\ fsm.alphabetSize >= before.alphabetSize
  /\ \A s \in Symbols : InAlphabet(before, s) => InAlphabet(fsm, s)
  /\ (/\ call.op = "addTransition"
      /\ before.transitionCount < MAX_TRANSITIONS
      /\ before.alphabetSize < MAX_ALPHABET) => InAlphabet(fsm, call.symbol)
  /\ \A s \in Symbols : s \notin passed => ~InAlphabet(fsm, s)

\* an accepted addTransition call, the last the table has room for, has
\* registered a second symbol
C5_Witness ==
  /\ call.op = "addTransition"
  /\ before.transitionCount = MAX_TRANSITIONS - 1
  /\ before.alphabetSize = 1
  /\ ~InAlphabet(before, call.symbol)
  /\ fsm.alphabetSize = 2
  /\ InAlphabet(fsm, call.symbol)

\* ---- C6 ----
\* C6: an addState call made when stateCount has reached MAX_STATES returns -1
\* and leaves the whole FSM (stateCount, every state's name and flag, the
\* transitions, the alphabet, initialState, currentState) unchanged.
C6_AddStateAtCapacity ==
  (call.op = "addState" /\ before.stateCount >= MAX_STATES) =>
    /\ ret = [kind |-> "int", value |-> -1]
    /\ fsm.stateCount = before.stateCount
    /\ fsm.states = before.states
    /\ fsm = before

\* addState was refused at MAX_STATES on an automaton that has transitions
C6_Witness ==
  /\ call.op = "addState"
  /\ before.stateCount = MAX_STATES
  /\ ret = [kind |-> "int", value |-> -1]
  /\ fsm.transitionCount > 0

\* ---- C7 ----
\* C7: an addTransition call made when transitionCount has reached
\* MAX_TRANSITIONS appends nothing and registers nothing: transitionCount, the
\* transitions, the alphabet and alphabetSize are unchanged, also when the
\* symbol is new and the alphabet has room.
C7_AddTransitionAtCapacity ==
  (call.op = "addTransition" /\ before.transitionCount >= MAX_TRANSITIONS) =>
    /\ fsm.transitionCount = before.transitionCount
    /\ fsm.transitions = before.transitions
    /\ fsm.alphabet = before.alphabet
    /\ fsm.alphabetSize = before.alphabetSize

\* addTransition was refused at MAX_TRANSITIONS with a symbol that is not in
\* the alphabet, which has room
C7_Witness ==
  /\ call.op = "addTransition"
  /\ before.transitionCount = MAX_TRANSITIONS
  /\ ~InAlphabet(before, call.symbol)
  /\ before.alphabetSize < MAX_ALPHABET

\* ---- C8 ----
\* C8: when the first character processString cannot consume, at index i, is
\* not in the alphabet, the call returns accepted = 0 and a trace of i + 2
\* records whose last is the not-in-alphabet record for that character, the
\* only such record; the trace has no no-transition record and no verdict
\* record; the loop stopped at i; and the cursor is on the state reached by
\* the i characters before.
C8_UnknownSymbol ==
  \A i \in 0 .. MaxLen :
    (Processed /\ HaltAt(before, call.input) = {i} /\ ~Known(before, call.input[i + 1])) =>
      /\ ret.accepted = 0
      /\ ret.traceCount = i + 2
      /\ Len(ret.trace) = i + 2
      /\ ret.trace[i + 2] = MsgNotInAlphabet(call.input[i + 1])
      /\ \A k \in 1 .. i + 1 :
           ~IsNotInAlphabet(ret.trace[k])
      /\ \A k \in 1 .. ret.traceCount :
           ~IsNoTransition(ret.trace[k]) /\ ~IsVerdict(ret.trace[k])
      /\ call.i = i
      /\ fsm.currentState = Reached(before, call.input, i)

\* a scan stopped at an unknown first character although the character after
\* it is in the alphabet and has a transition from the initial state
C8_Witness ==
  /\ Processed
  /\ Len(call.input) = 2
  /\ HaltAt(before, call.input) = {0}
  /\ ~Known(before, call.input[1])
  /\ Known(before, call.input[2])
  /\ Matches(before, before.initialState, call.input[2]) # {}
  /\ ret.traceCount = 2

\* ---- C9 ----
\* C9: when the first character processString cannot consume, at index i, is
\* in the alphabet but has no transition from the state reached, the call
\* returns accepted = 0 (whatever the flag of that state) and a trace of i + 2
\* records whose last is the no-transition record for that character and
\* state, the only such record; the trace has no not-in-alphabet record and no
\* verdict record; the loop stopped at i; and the cursor is still on that
\* state.
C9_NoTransition ==
  \A i \in 0 .. MaxLen :
    (Processed /\ HaltAt(before, call.input) = {i} /\ Known(before, call.input[i + 1])) =>
      LET q == Reached(before, call.input, i)
      IN  /\ ret.accepted = 0
          /\ ret.traceCount = i + 2
          /\ Len(ret.trace) = i + 2
          /\ ret.trace[i + 2]
               = MsgNoTransition(call.input[i + 1], StateAt(before, uninit, q).name)
          /\ \A k \in 1 .. i + 1 : ~IsNoTransition(ret.trace[k])
          /\ \A k \in 1 .. ret.traceCount :
               ~IsNotInAlphabet(ret.trace[k]) /\ ~IsVerdict(ret.trace[k])
          /\ call.i = i
          /\ fsm.currentState = q

\* a scan consumed one character, then stopped on an accepting state for want
\* of a transition
C9_Witness ==
  /\ Processed
  /\ HaltAt(before, call.input) = {1}
  /\ Known(before, call.input[2])
  /\ fsm.currentState # fsm.initialState
  /\ StateAt(fsm, uninit, fsm.currentState).isAccepting = 1
  /\ ret.accepted = 0

\* ---- C10 ----
\* C10: findTransition(state, symbol) returns the smallest index whose
\* transition has that fromState and symbol, and -1 iff no registered
\* transition matches; and an addTransition call for a (fromState, symbol)
\* pair that already has a transition changes the result of processString for
\* no input.
C10_FirstMatch ==
  /\ \A q \in StateArgs \cup {fsm.currentState} : \A c \in Symbols :
       LET m == Matches(fsm, q, c)
       IN  findTransition(fsm, q, c) = IF m = {} THEN -1 ELSE Least(m) - 1
  /\ (/\ call.op = "addTransition"
      /\ Matches(before, call.fromState, call.symbol) # {}) =>
       \A input \in Inputs :
         processString(fsm, uninit, input).result
           = processString(before, uninit, input).result

\* a second transition was registered for the pair (initial state, symbol)
\* that has one already, to a state with the other accepting flag
C10_Witness ==
  /\ call.op = "addTransition"
  /\ Matches(before, call.fromState, call.symbol) # {}
  /\ fsm.transitionCount = before.transitionCount + 1
  /\ call.fromState = fsm.initialState
  /\ call.toState # fsm.transitions[Least(Matches(fsm, call.fromState, call.symbol))].toState
  /\ fsm.stateCount = 2
  /\ fsm.states[1].isAccepting # fsm.states[2].isAccepting

\* ---- C11 ----
\* C11: a processString call changes nothing of the automaton but currentState:
\* the states (names and accepting flags), stateCount, the transitions,
\* transitionCount, the alphabet, alphabetSize and initialState are after the
\* call what they were before it, whether the scan ended accepting, rejecting
\* or halted early.
C11_ProcessStringFrame ==
  Processed =>
    /\ fsm.states = before.states
    /\ fsm.stateCount = before.stateCount
    /\ fsm.transitions = before.transitions
    /\ fsm.transitionCount = before.transitionCount
    /\ fsm.alphabet = before.alphabet
    /\ fsm.alphabetSize = before.alphabetSize
    /\ fsm.initialState = before.initialState
    /\ fsm = [before EXCEPT !.currentState = fsm.currentState]

\* a call that consumed two characters and moved the cursor off the initial
\* state, on an automaton with two states, two transitions and two symbols
C11_Witness ==
  /\ Processed
  /\ call.i = 2
  /\ fsm.currentState # before.currentState
  /\ fsm.currentState # fsm.initialState
  /\ before.stateCount = 2
  /\ before.transitionCount = 2
  /\ before.alphabetSize = 2

\* ---- C12 ----
\* C12: a resetFSM call sets currentState to initialState and changes nothing
\* else of the automaton, wherever the cursor was; a second resetFSM right
\* after it leaves the automaton as the first left it.
C12_ResetFSM ==
  call.op = "resetFSM" =>
    /\ fsm.currentState = before.initialState
    /\ fsm = [before EXCEPT !.currentState = before.initialState]
    /\ resetFSM(fsm) = fsm
    /\ resetFSM(resetFSM(before)) = resetFSM(before)

\* resetFSM was called with the cursor away from the initial state
C12_Witness ==
  /\ call.op = "resetFSM"
  /\ before.currentState # before.initialState
  /\ fsm.currentState = fsm.initialState
  /\ fsm.transitionCount > 0

\* ---- C13 ----
\* C13 as stated: on the automaton createSampleFSM builds, processString
\* returns accepted = true for a string over {a, b, c} iff the string is a
\* concatenation of zero or more copies of "abc".
IsAbcStar(input) ==
  /\ Len(input) % 3 = 0
  /\ \A k \in 1 .. Len(input) : input[k] = <<"a", "b", "c">>[((k - 1) % 3) + 1]

C13_AcceptsAbcStar ==
  (Processed /\ \A k \in 1 .. Len(call.input) : call.input[k] \in {"a", "b", "c"}) =>
    ((ret.accepted # 0) <=> IsAbcStar(call.input))

\* ---- C14 ----
\* C14: on the automaton with states q0, q1, q2 (only q2 accepting),
\* transitions q0 -a-> q1, q1 -b-> q2, q2 -c-> q0 and initial state q0,
\* processString on "abc" consumes the three symbols through q1 and q2 back to
\* q0, leaves the cursor on q0 and returns accepted = false with a trace of 5
\* records, the last being the REJECTED record.
IsAbcAutomaton(f) ==
  /\ f.stateCount = 3
  /\ f.states = <<[name |-> "q0", isAccepting |-> 0],
                  [name |-> "q1", isAccepting |-> 0],
                  [name |-> "q2", isAccepting |-> 1]>>
  /\ f.transitionCount = 3
  /\ f.transitions = <<[fromState |-> 0, toState |-> 1, symbol |-> "a"],
                       [fromState |-> 1, toState |-> 2, symbol |-> "b"],
                       [fromState |-> 2, toState |-> 0, symbol |-> "c"]>>
  /\ f.initialState = 0

C15_CursorIsValidIndex ==
  fsm.stateCount >= 1 =>
    /\ 0 <= fsm.initialState /\ fsm.initialState < fsm.stateCount
    /\ 0 <= fsm.currentState /\ fsm.currentState < fsm.stateCount

\* ---- C16 ----
\* C16: in every reachable state, calls made at a capacity included,
\* 0 <= stateCount <= MAX_STATES, 0 <= transitionCount <= MAX_TRANSITIONS and
\* 0 <= alphabetSize <= MAX_ALPHABET, and the alphabet entries below
\* alphabetSize are pairwise distinct.
C16_CountsWithinCapacity ==
  /\ 0 <= fsm.stateCount /\ fsm.stateCount <= MAX_STATES
  /\ 0 <= fsm.transitionCount /\ fsm.transitionCount <= MAX_TRANSITIONS
  /\ 0 <= fsm.alphabetSize /\ fsm.alphabetSize <= MAX_ALPHABET
  /\ \A i \in 1 .. fsm.alphabetSize : \A j \in 1 .. fsm.alphabetSize :
       i # j => fsm.alphabet[i] # fsm.alphabet[j]

\* addTransition was called with a symbol the alphabet holds, on an alphabet
\* that has reached MAX_ALPHABET symbols
C16_Witness ==
  /\ call.op = "addTransition"
  /\ before.alphabetSize = MAX_ALPHABET
  /\ InAlphabet(before, call.symbol)
  /\ fsm.transitionCount = before.transitionCount + 1
  /\ fsm.alphabetSize = MAX_ALPHABET

\* ---- C17 ----
\* C17: a successful addState call returns the stateCount it found, stores the
\* name and flag it was given at that index and increments stateCount by
\* exactly one; no other call changes stateCount (so, counted from
\* initializeFSM, the k-th successful call returns k - 1); and no call changes
\* the name or the accepting flag stored at an index assigned before it.
C17_SequentialIndices ==
  /\ (call.op = "addState" /\ ret.value # -1) =>
       /\ ret.value = before.stateCount
       /\ fsm.stateCount = before.stateCount + 1
       /\ Len(fsm.states) = fsm.stateCount
       /\ fsm.states[ret.value + 1] = [name |-> call.name, isAccepting |-> call.isAccepting]
  /\ (call.op = "addState" /\ before.stateCount = 0) => ret.value = 0
  /\ (call.op = "addState" /\ before.stateCount = 1) => ret.value = 1
  /\ call.op # "addState" => fsm.stateCount = before.stateCount
  /\ \A i \in 0 .. before.stateCount - 1 : fsm.states[i + 1] = before.states[i + 1]

\* the second addState call succeeded, with the other flag than the first
C17_Witness ==
  /\ call.op = "addState"
  /\ ret.value = 1
  /\ fsm.stateCount = 2
  /\ fsm.states[1].isAccepting # fsm.states[2].isAccepting
  /\ fsm.transitionCount > 0

\* ---- C18 ----
\* C18: an addTransition call with a symbol the alphabet does not hold, made
\* when the alphabet holds MAX_ALPHABET symbols and the transition table has
\* room, appends the transition and leaves the alphabet as it was; from then
\* on processString halts with the not-in-alphabet record at that symbol on
\* every input whose scan gets to it, although findTransition has a matching
\* transition for it.
C18_SymbolDroppedAtFullAlphabet ==
  /\ (/\ call.op = "addTransition"
      /\ before.alphabetSize >= MAX_ALPHABET
      /\ ~InAlphabet(before, call.symbol)
      /\ before.transitionCount < MAX_TRANSITIONS) =>
       /\ fsm.transitionCount = before.transitionCount + 1
       /\ fsm.transitions
            = Append(before.transitions,
                     [fromState |-> call.fromState, toState |-> call.toState,
                      symbol |-> call.symbol])
       /\ fsm.alphabet = before.alphabet
       /\ fsm.alphabetSize = before.alphabetSize
       /\ findTransition(fsm, call.fromState, call.symbol) >= 0
       /\ \A input \in Inputs : \A i \in 0 .. Len(input) - 1 :
            (input[i + 1] = call.symbol /\ \A j \in 1 .. i : CanRead(fsm, input, j)) =>
              LET out == processString(fsm, uninit, input)
              IN  /\ out.i = i
                  /\ out.result.accepted = 0
                  /\ out.result.traceCount = i + 2
                  /\ out.result.trace[i + 2] = <<"Error: '", call.symbol, "' not in alphabet">>
  /\ \A i \in 0 .. MaxLen :
       (/\ Processed
        /\ before.alphabetSize >= MAX_ALPHABET
        /\ HaltAt(before, call.input) = {i}
        /\ ~Known(before, call.input[i + 1])
        /\ Matches(before, Reached(before, call.input, i), call.input[i + 1]) # {}) =>
         /\ call.i = i
         /\ ret.accepted = 0
         /\ ret.traceCount = i + 2
         /\ ret.trace[i + 2] = <<"Error: '", call.input[i + 1], "' not in alphabet">>
         /\ fsm.currentState = Reached(before, call.input, i)

\* processString halted on a symbol that has a transition from the state the
\* cursor was on but that the full alphabet does not hold, after consuming a
\* character
C18_Witness ==
  /\ Processed
  /\ before.alphabetSize = MAX_ALPHABET
  /\ Len(call.input) = 2
  /\ HaltAt(before, call.input) = {1}
  /\ ~Known(before, call.input[2])
  /\ findTransition(before, Reached(before, call.input, 1), call.input[2]) >= 0
  /\ ret.traceCount = 3
  /\ IsNotInAlphabet(ret.trace[3])

\* ---- C19 ----
\* C19 as stated: processString does not check the trace bound; on an input
\* of n >= MAX_TRACE - 1 characters that are all consumed the call writes
\* records at indices >= MAX_TRACE and returns traceCount = n + 2 > MAX_TRACE
\* (no error outcome); on an input of at most MAX_TRACE - 2 characters every
\* record is written at an index < MAX_TRACE.
C19_UncheckedTraceOverflow ==
  /\ (/\ Processed
      /\ Len(call.input) >= MAX_TRACE - 1
      /\ call.i = Len(call.input)) =>
       /\ call.outside # <<>>
       /\ \A k \in 1 .. Len(call.outside) : call.outside[k].index >= MAX_TRACE
       /\ ret.kind = "ProcessResult"
       /\ ret.traceCount = Len(call.input) + 2
       /\ ret.traceCount > MAX_TRACE
  /\ (Processed /\ Len(call.input) <= MAX_TRACE - 2) => call.outside = <<>>

\* a call on MAX_TRACE - 1 characters, all consumed, wrote its verdict record
\* at index MAX_TRACE and returned a traceCount that is not the number of
\* records written
C19_Witness ==
  /\ Processed
  /\ Len(call.input) = MAX_TRACE - 1
  /\ call.i = Len(call.input)
  /\ Len(call.outside) = 1
  /\ call.outside[1].index = MAX_TRACE
  /\ ret.kind = "ProcessResult"
  /\ ret.traceCount # Len(call.input) + 2

\* ---- C20 ----
\* C20: after processString returns, currentState is the state reached from
\* initialState by the characters the scan consumed (the whole input on a
\* completed scan, the first i on a halt at index i), and the addState and
\* addTransition calls that follow leave it there: only resetFSM or the next
\* processString moves it back to initialState.
C20_CursorStaysWhereScanEnded ==
  /\ Processed =>
       LET halt == HaltAt(before, call.input)
           reads == IF halt = {} THEN Len(call.input) ELSE Least(halt)
       IN  /\ call.i = reads
           /\ fsm.currentState = Reached(before, call.input, reads)
  /\ call.op \in {"addState", "addTransition"} => fsm.currentState = before.currentState

\* an addTransition call made after a scan found and left the cursor off the
\* initial state
C20_Witness ==
  /\ call.op = "addTransition"
  /\ before.currentState # before.initialState
  /\ fsm.currentState = before.currentState
  /\ fsm.currentState # fsm.initialState

====
